---------------------------- MODULE Spec2Model ----------------------------
(***************************************************************************)
(* A model of the WeatherApp core (src/main.cpp): the VisualCrossing       *)
(* schedule parser parseVisualCrossingJson, the temperature colour map     *)
(* fon, the statistics of WeatherChart::plotLineStat, and the main         *)
(* window's button handlers with the network replies they wait for.        *)
(*                                                                         *)
(* The three functions are pure.  Each has a specification of its own      *)
(* (SpecParse, SpecFon, SpecStat) whose initial states draw the inputs     *)
(* from bounded sets and whose single action applies the function.  The    *)
(* main window has the specification SpecApp: one action per button        *)
(* handler and per reply callback, run by Qt's event loop one at a time.   *)
(***************************************************************************)
EXTENDS Integers, Sequences, FiniteSets, TLC

VARIABLES
  doc,        \* parseVisualCrossingJson: the QJsonDocument argument
  freq,       \* parseVisualCrossingJson / plotLineStat: the frequency string
  result,     \* parseVisualCrossingJson: the returned QList<WeatherPoint>
  src,        \* history: <<day index, hour index>> of each sample of result
  temp_c,     \* fon: the argument, in units of 1/TempScale degrees
  colour,     \* fon: the returned colour name
  xys,        \* plotLineStat: the QVector<QPointF> argument
  showDeviation, \* plotLineStat: the showDeviation argument
  chart,      \* plotLineStat: the chart handed to setChart
  pc,         \* "input" before the function has run, "done" after
  net,        \* MainWindow: the requests whose QNetworkReply has not finished
  nextId,     \* history: the number given to the next request a click sends
  windows,    \* the open modal windows (QMessageBox, chartsDialog), top last
  currLabel,  \* MainWindow::currLabel, the text fields of the current weather
  background, \* the background colour of tab 1 (tabs->widget(0))
  currChart,  \* MainWindow::currChart, the bar chart of the forecast
  forecastData, \* MainWindow::forecastData
  dialogCharts, \* the four charts of chartsDialog while it is open
  statCharts, \* MainWindow::statCharts[4]
  avgCharts,  \* MainWindow::avgCharts[4]
  running,    \* the getPlotStat callback inside its plotting loop, if any
  lastOp,     \* history: the handler or callback that ran last, with its inputs
  crashed,    \* the process has ended abnormally
  statFrom,   \* history: the request whose reply each of statCharts shows
  avgFrom,    \* history: the request whose reply each of avgCharts shows
  good,       \* history: the getPlotStat replies that gave at least one point
  lastGood,   \* history: the last of them for each tab, with body and frequency
  everStored, \* history: a forecast reply has stored at least one point
  calls       \* history: the plot functions invoked, with their point counts

pureVars == <<doc, freq, result, src, temp_c, colour, xys, showDeviation, chart>>
appVars == <<net, nextId, windows, currLabel, background, currChart,
             forecastData, dialogCharts, statCharts, avgCharts, running,
             lastOp, crashed, statFrom, avgFrom, good, lastGood, everStored, calls>>
vars == <<doc, freq, result, src, temp_c, colour, xys, showDeviation, chart, pc,
          net, nextId, windows, currLabel, background, currChart,
          forecastData, dialogCharts, statCharts, avgCharts, running,
          lastOp, crashed, statFrom, avgFrom, good, lastGood, everStored, calls>>

(***************************************************************************)
(* Bounds of the model.                                                    *)
(***************************************************************************)
MaxDays == 2        \* days in a schedule document
MaxHours == 25      \* entries in one day's hours list (a long day has 25)
TempScale == 2      \* fon: temperatures are multiples of 1/TempScale degree
TempLimit == 30     \* fon: temperatures lie in -TempLimit..TempLimit degrees
MaxPoints == 3      \* plotLineStat: points in the series
MantBits == 3       \* significand bits of the modelled double (a double has 53)
QuantumBits == 6    \* the least positive modelled double is 2^-QuantumBits

(***************************************************************************)
(* JSON values (QJsonValue).  A value is a record tagged by its type.      *)
(* An object is a function from its keys to values, an array a sequence.   *)
(***************************************************************************)
JUndefined == [t |-> "undef"]
JNull == [t |-> "null"]
JNum(n) == [t |-> "num", n |-> n]
JStr(s) == [t |-> "str", s |-> s]
JArr(a) == [t |-> "arr", a |-> a]
JObj(o) == [t |-> "obj", o |-> o]
EmptyObject == <<>>

\* QJsonValue::toObject(): the object, or an empty object for any other type.
toObject(v) == IF v.t = "obj" THEN v.o ELSE EmptyObject

\* QJsonValue::toArray(): the array, or an empty array for any other type.
toArray(v) == IF v.t = "arr" THEN v.a ELSE <<>>

\* QJsonValue::toString(): the string, or a null string for any other type.
toString(v) == IF v.t = "str" THEN v.s ELSE ""

\* QJsonValue::toDouble(): the number, or 0 for any other type.
toDouble(v) == IF v.t = "num" THEN v.n ELSE 0

\* QJsonObject::contains(key).
contains(o, key) == key \in DOMAIN o

\* QJsonObject::operator[](key): the value, or Undefined for a missing key.
at(o, key) == IF key \in DOMAIN o THEN o[key] ELSE JUndefined

\* QJsonDocument::object(): the object, or an empty object when the document
\* is null or holds an array.
docObject(d) == IF d.t = "obj" THEN d.o ELSE EmptyObject

(***************************************************************************)
(* QDateTime.  Time is counted in whole hours since 2023-01-01 00:00:00;   *)
(* the schedule's entries are whole hours.                                 *)
(***************************************************************************)
DateStrings == <<"2023-01-01", "2023-01-02", "2023-01-03", "2023-01-04">>
TimeStrings ==
  <<"00:00:00", "01:00:00", "02:00:00", "03:00:00", "04:00:00", "05:00:00",
    "06:00:00", "07:00:00", "08:00:00", "09:00:00", "10:00:00", "11:00:00",
    "12:00:00", "13:00:00", "14:00:00", "15:00:00", "16:00:00", "17:00:00",
    "18:00:00", "19:00:00", "20:00:00", "21:00:00", "22:00:00", "23:00:00">>
HoursPerDay == Len(TimeStrings)

InvalidDateTime == [valid |-> FALSE]
DateTime(h) == [valid |-> TRUE, h |-> h]

\* The strings that match the layout yyyy-MM-dd HH:mm:ss, with their values.
WellFormed ==
  { <<DateStrings[a] \o " " \o TimeStrings[b], (a - 1) * HoursPerDay + (b - 1)>> :
      a \in DOMAIN DateStrings, b \in DOMAIN TimeStrings }
WellFormedStrings == { w[1] : w \in WellFormed }
ValueOfString(s) == (CHOOSE w \in WellFormed : w[1] = s)[2]

\* QDateTime::fromString(s, "yyyy-MM-dd HH:mm:ss"): the date and time s
\* spells in that layout, or an invalid QDateTime.
fromString(s) ==
  IF s \in WellFormedStrings THEN DateTime(ValueOfString(s)) ELSE InvalidDateTime

(***************************************************************************)
(* parseVisualCrossingJson (src/main.cpp:53-88).                           *)
(***************************************************************************)
\* Lines 56-66 with 24 for a string the chain does not name.
intervalOf_default24(f) ==
  IF f = "1h" THEN 1
  ELSE IF f = "3h" THEN 3
  ELSE IF f = "6h" THEN 6
  ELSE IF f = "12h" THEN 12
  ELSE 24

\* Lines 56-66: int interval = 1, then the if / else-if chain over freq.
intervalOf(f) ==
  IF f = "1h" THEN 1
  ELSE IF f = "3h" THEN 3
  ELSE IF f = "6h" THEN 6
  ELSE IF f = "12h" THEN 12
  ELSE IF f = "1d" THEN 24
  ELSE 1

\* Lines 76-83 with humidity read from the "pressure" key.
pointOf_wrongKey(hourV, date) ==
  LET hour == toObject(hourV)
      time == toString(at(hour, "datetime"))
  IN  [datetime |-> fromString(date \o " " \o time),
       temperature |-> toDouble(at(hour, "temp")),
       pressure |-> toDouble(at(hour, "pressure")),
       humidity |-> toDouble(at(hour, "pressure")),
       windspeed |-> toDouble(at(hour, "windspeed"))]

\* Lines 76-83: the WeatherPoint of one hourly entry of a day dated `date`.
pointOf(hourV, date) ==
  LET hour == toObject(hourV)
      time == toString(at(hour, "datetime"))
  IN  [datetime |-> fromString(date \o " " \o time),
       temperature |-> toDouble(at(hour, "temp")),
       pressure |-> toDouble(at(hour, "pressure")),
       humidity |-> toDouble(at(hour, "humidity")),
       windspeed |-> toDouble(at(hour, "windspeed"))]

\* Lines 75-85 with the loop condition i + interval <= hours.size().
RECURSIVE hoursLoop_dropTail(_, _, _, _, _)
hoursLoop_dropTail(hours, date, d, i, interval) ==
  IF i + interval <= Len(hours)
  THEN <<[p |-> pointOf(hours[i + 1], date), d |-> d, i |-> i]>>
         \o hoursLoop_dropTail(hours, date, d, i + interval, interval)
  ELSE <<>>

\* Lines 75-85: for (i = 0; i < hours.size(); i += interval) append a point.
\* Each sample is kept with the day index d and hour index i it came from.
RECURSIVE hoursLoop(_, _, _, _, _)
hoursLoop(hours, date, d, i, interval) ==
  IF i < Len(hours)
  THEN <<[p |-> pointOf(hours[i + 1], date), d |-> d, i |-> i]>>
         \o hoursLoop(hours, date, d, i + interval, interval)
  ELSE <<>>

\* Lines 70-86 with `break` for `continue` at a day without "hours".
RECURSIVE daysLoop_break(_, _, _)
daysLoop_break(days, k, interval) ==
  IF k > Len(days) THEN <<>>
  ELSE LET day == toObject(days[k])
           date == toString(at(day, "datetime"))
       IN  IF ~contains(day, "hours") THEN <<>>
           ELSE hoursLoop(toArray(at(day, "hours")), date, k - 1, 0, interval)
                  \o daysLoop_break(days, k + 1, interval)

\* Lines 70-86 with the stride carried over the day boundary: the first
\* index taken in a day continues the count of the days before it.
RECURSIVE daysLoop_carryFrom(_, _, _, _)
daysLoop_carryFrom(days, k, interval, first) ==
  IF k > Len(days) THEN <<>>
  ELSE LET day == toObject(days[k])
           date == toString(at(day, "datetime"))
           n == Len(toArray(at(day, "hours")))
           next == IF first >= n THEN first - n
                   ELSE (interval - ((n - first) % interval)) % interval
       IN  hoursLoop(toArray(at(day, "hours")), date, k - 1, first, interval)
             \o daysLoop_carryFrom(days, k + 1, interval, next)

daysLoop_carry(days, k, interval) == daysLoop_carryFrom(days, k, interval, 0)

\* Lines 70-86: for each day in document order, skip it when it has no
\* "hours" key, else sample its hours list from index 0.
RECURSIVE daysLoop(_, _, _)
daysLoop(days, k, interval) ==
  IF k > Len(days) THEN <<>>
  ELSE LET day == toObject(days[k])
           date == toString(at(day, "datetime"))
       IN  (IF ~contains(day, "hours") THEN <<>>
            ELSE hoursLoop(toArray(at(day, "hours")), date, k - 1, 0, interval))
             \o daysLoop(days, k + 1, interval)

\* Lines 68-69 with a "days" value that is a single day object taken as a
\* one-element array.
daysOf_wrapObject(d) ==
  LET v == at(docObject(d), "days")
  IN  IF v.t = "obj" THEN <<v>> ELSE toArray(v)

\* Lines 68-69: doc.object()["days"].toArray().
daysOf(d) == toArray(at(docObject(d), "days"))

\* Lines 53-88: the samples with their source indices.
parseSamples(d, f) == daysLoop(daysOf(d), 1, intervalOf(f))

\* The points of a list of samples, and their source indices.
pointsOf(s) == [k \in 1..Len(s) |-> s[k].p]
sourcesOf(s) == [k \in 1..Len(s) |-> <<s[k].d, s[k].i>>]

\* The returned QList<WeatherPoint>.
parseVisualCrossingJson(d, f) == pointsOf(parseSamples(d, f))

\* The copy of the function in the test file (src/main.cpp:668-693): it
\* returns at once for a document that is no object, and takes every entry
\* of every hours list whatever freq is.
parseVisualCrossingJsonTestCopy(d, f) ==
  IF d.t # "obj" THEN <<>> ELSE pointsOf(daysLoop(daysOf(d), 1, 1))

(***************************************************************************)
(* The schedule documents the parser is applied to.                        *)
(*                                                                         *)
(* A document is a list of at most MaxDays days.  A day is not an object,  *)
(* has no "hours" key, has an "hours" value that is no array, or has an    *)
(* hours list of 0..MaxHours entries.  A pattern decides which entries     *)
(* and dates are well formed: pattern 0 leaves all of them well formed,    *)
(* pattern p > 0 cycles the variants below over the entries, starting at   *)
(* a different variant for each p and each day.                            *)
(***************************************************************************)
HourVariants == <<"ok", "absent", "nonnum", "badtime", "notime", "notobj">>
DateVariants == <<"ok", "baddate", "nodate">>
Patterns == 0..(Len(HourVariants) \div 2)

\* The measured values of entry i of day d; all four differ.
tempAt(d, i) == 30 * d + i - 10
pressureAt(d, i) == 1000 + 30 * d + i
humidityAt(d, i) == 40 + i
windspeedAt(d, i) == (i % 7) + 1 + d

timeAt(i) == TimeStrings[(i % HoursPerDay) + 1]

hourVariant(p, d, i) ==
  IF p = 0 THEN "ok" ELSE HourVariants[((p + d + i) % Len(HourVariants)) + 1]

dateVariant(p, d) ==
  IF p = 0 THEN "ok" ELSE DateVariants[((p + d) % Len(DateVariants)) + 1]

hourEntry(p, d, i) ==
  LET v == hourVariant(p, d, i)
      full == ("datetime" :> JStr(timeAt(i))) @@ ("temp" :> JNum(tempAt(d, i)))
                @@ ("pressure" :> JNum(pressureAt(d, i)))
                @@ ("humidity" :> JNum(humidityAt(d, i)))
                @@ ("windspeed" :> JNum(windspeedAt(d, i)))
  IN  CASE v = "ok" -> JObj(full)
        [] v = "absent" ->
             JObj(("datetime" :> JStr(timeAt(i)))
                    @@ ("pressure" :> JNum(pressureAt(d, i))))
        [] v = "nonnum" ->
             JObj(("temp" :> JStr("11")) @@ ("pressure" :> JNull)
                    @@ ("windspeed" :> JArr(<<JNum(3)>>)) @@ full)
        [] v = "badtime" -> JObj(("datetime" :> JStr("01:00")) @@ full)
        [] v = "notime" ->
             JObj([k \in DOMAIN full \ {"datetime"} |-> full[k]])
        [] v = "notobj" -> JNum(tempAt(d, i))

hoursList(p, d, n) == [j \in 1..n |-> hourEntry(p, d, j - 1)]

dayDate(p, d) ==
  LET v == dateVariant(p, d)
  IN  CASE v = "ok" -> ("datetime" :> JStr(DateStrings[d + 1]))
        [] v = "baddate" -> ("datetime" :> JStr("01.01.2023"))
        [] v = "nodate" -> EmptyObject

\* The lengths of an hours list: the short ones, and those at and just past
\* 6, 12 and 24, which are at and just past a multiple of every stride.
HourCounts == { n \in 0..MaxHours : n <= 4 \/ n \in {6, 7} \/ n % 12 <= 1 }

\* The shapes of a day: three without an hours list, and one for each length.
DayShapes == {<<"notobj", 0>>, <<"nohours", 0>>, <<"hoursnotarr", 0>>}
               \cup {<<"hours", n>> : n \in HourCounts}

dayValue(p, d, shape) ==
  CASE shape[1] = "notobj" -> JStr(DateStrings[d + 1])
    [] shape[1] = "nohours" -> JObj(dayDate(p, d))
    [] shape[1] = "hoursnotarr" ->
         JObj(dayDate(p, d) @@ ("hours" :> hourEntry(p, d, 0)))
    [] shape[1] = "hours" ->
         JObj(dayDate(p, d) @@ ("hours" :> JArr(hoursList(p, d, shape[2]))))

ShapeLists == UNION { [1..k -> DayShapes] : k \in 0..MaxDays }

daysValue(p, shapes) == [k \in 1..Len(shapes) |-> dayValue(p, k - 1, shapes[k])]

\* A document with a "days" array.
scheduleDoc(p, shapes) ==
  JObj(("days" :> JArr(daysValue(p, shapes))) @@ ("address" :> JStr("Moscow")))

\* Documents without one: a null document, an array document, an object
\* without "days", and objects whose "days" is an object, a string, a
\* number or null.
aDay == dayValue(0, 0, <<"hours", 2>>)
MalformedDocs ==
  { JNull,
    JArr(<<aDay>>),
    JArr(<<>>),
    JObj(EmptyObject),
    JObj(("hours" :> JArr(hoursList(0, 0, 2))) @@ ("datetime" :> JStr(DateStrings[1]))),
    JObj("days" :> aDay),
    JObj("days" :> JStr(DateStrings[1])),
    JObj("days" :> JNum(1)),
    JObj("days" :> JNull) }

\* The five frequencies of the combo boxes (src/main.cpp:517), and strings
\* that are none of them.
Recognised == {"1h", "3h", "6h", "12h", "1d"}
Freqs == Recognised \cup {"", "2h"}

(***************************************************************************)
(* double.  A double is modelled as a binary floating-point number with a  *)
(* significand of MantBits bits and gradual underflow, rounded to nearest, *)
(* ties to even, as IEEE 754 rounds.  A value x stands for                 *)
(* x * 2^-QuantumBits, so the values are the integers with at most         *)
(* MantBits significant bits.  Timestamps are integers well below 2^53     *)
(* and are exact in a double; they are kept as integers.                   *)
(***************************************************************************)
RECURSIVE Pow2(_)
Pow2(n) == IF n = 0 THEN 1 ELSE 2 * Pow2(n - 1)

Abs(x) == IF x < 0 THEN -x ELSE x
Sign(x) == IF x < 0 THEN -1 ELSE 1

\* The spacing of the doubles around a / den: the least power of two `step`
\* with a / den < 2^MantBits * step.
RECURSIVE Spacing(_, _, _)
Spacing(a, den, step) ==
  IF a < Pow2(MantBits) * step * den THEN step ELSE Spacing(a, den, 2 * step)

\* q * step or (q + 1) * step, whichever is nearer to a / den, where
\* q = floor(a / (step * den)); a tie goes to the even one of q and q + 1.
RoundAt(a, unit, step) ==
  IF 2 * (a % unit) > unit \/ (2 * (a % unit) = unit /\ (a \div unit) % 2 = 1)
  THEN ((a \div unit) + 1) * step
  ELSE (a \div unit) * step

RoundAbs(a, den, step) == RoundAt(a, step * den, step)

\* The double nearest to num / den (den > 0), ties to the even significand.
Round(num, den) == Sign(num) * RoundAbs(Abs(num), den, Spacing(Abs(num), den, 1))

\* x + y, x - y, x * y and x / n on doubles, n a count converted to double.
FAdd(x, y) == Round(x + y, 1)
FSub(x, y) == Round(x - y, 1)
FMul(x, y) == Round(x * y, Pow2(QuantumBits))
FDiv(x, n) == Round(x, n)

\* The integer square root.
RECURSIVE ISqrtFrom(_, _)
ISqrtFrom(y, m) == IF (m + 1) * (m + 1) > y THEN m ELSE ISqrtFrom(y, m + 1)

\* The spacing of the doubles around sqrt(y).
RECURSIVE SqrtSpacing(_, _)
SqrtSpacing(y, step) ==
  IF y < (Pow2(MantBits) * step) * (Pow2(MantBits) * step) THEN step
  ELSE SqrtSpacing(y, 2 * step)

\* m * step or (m + 1) * step, whichever is nearer to sqrt(y), where
\* m = floor(sqrt(y) / step): the upper one when sqrt(y) > (m + 1/2) * step.
SqrtRoundAt(y, step, m) ==
  IF (2 * m + 1) * (2 * m + 1) * step * step < 4 * y
     \/ ((2 * m + 1) * (2 * m + 1) * step * step = 4 * y /\ m % 2 = 1)
  THEN (m + 1) * step
  ELSE m * step

SqrtRound(y, step) == SqrtRoundAt(y, step, ISqrtFrom(y \div (step * step), 0))

\* std::sqrt(x), x >= 0: the double nearest to the square root.  x stands
\* for x / 2^QuantumBits, whose root is sqrt(x * 2^QuantumBits) / 2^QuantumBits.
FSqrt(x) == SqrtRound(x * Pow2(QuantumBits), SqrtSpacing(x * Pow2(QuantumBits), 1))

(***************************************************************************)
(* WeatherChart::plotLineStat (src/main.cpp:148-224).                      *)
(***************************************************************************)
\* QDateTime::fromMSecsSinceEpoch(ms) and QDateTime::toMSecsSinceEpoch() of
\* the valid QDateTime it gives.
fromMSecsSinceEpoch(ms) == DateTime(ms)
toMSecsSinceEpoch(dt) == dt.h

\* Lines 155-161: the series' points, the datetimes and the values.  The x
\* of a point is a whole number of time units put there by the callers
\* (lines 371-372, 448-449), which static_cast<qint64> leaves as it is.
seriesOf(pts) == [i \in 1..Len(pts) |-> <<pts[i][1], pts[i][2]>>]
datetimesOf(pts) == [i \in 1..Len(pts) |-> fromMSecsSinceEpoch(pts[i][1])]
valuesOf(pts) == [i \in 1..Len(pts) |-> pts[i][2]]

\* std::accumulate(values.begin(), values.end(), 0.0): a left fold of +.
RECURSIVE accumulate(_, _)
accumulate(values, n) ==
  IF n = 0 THEN 0 ELSE FAdd(accumulate(values, n - 1), values[n])

\* Lines 166-167: the sum divided by values.size().
meanOf(values) == FDiv(accumulate(values, Len(values)), Len(values))

\* Lines 168-170: the fold of sum + (v - mean) * (v - mean).
RECURSIVE accumulateSquares(_, _, _)
accumulateSquares(values, mean, n) ==
  IF n = 0 THEN 0
  ELSE FAdd(accumulateSquares(values, mean, n - 1),
            FMul(FSub(values[n], mean), FSub(values[n], mean)))

\* Lines 168-171: std::sqrt(fold / values.size()).
stddevOf(values, mean) ==
  FSqrt(FDiv(accumulateSquares(values, mean, Len(values)), Len(values)))

\* Lines 176-178: the mean line, one point per datetime.
meanLine(datetimes, mean) ==
  [i \in 1..Len(datetimes) |-> <<toMSecsSinceEpoch(datetimes[i]), mean>>]

\* Line 181 with the band shown also for a deviation of zero.
bandShown_zeroToo(showDev, stddev) == showDev /\ stddev >= 0

\* Line 181: if (showDeviation && stddev > 0).
bandShown(showDev, stddev) == showDev /\ stddev > 0

\* Lines 188-192 with the band laid around the mean.
bandLine_aroundMean(datetimes, values, mean, offset) ==
  [i \in 1..Len(datetimes) |->
     <<toMSecsSinceEpoch(datetimes[i]), FAdd(mean, offset)>>]

\* Lines 188-192: one band point per sample, values[i] + offset; the upper
\* line has offset stddev, the lower one offset -stddev.
bandLine(datetimes, values, mean, offset) ==
  [i \in 1..Len(datetimes) |->
     <<toMSecsSinceEpoch(datetimes[i]), FAdd(values[i], offset)>>]

\* Lines 199-206: the format of the time axis.
formatOf(f) ==
  IF f = "1h" \/ f = "3h" THEN "HH:mm\ndd.MM"
  ELSE IF f = "6h" \/ f = "12h" THEN "HH:mm\ndd.MM"
  ELSE "dd.MM.yyyy"

\* qMin(10, n), line 212.
qMin(a, b) == IF a < b THEN a ELSE b

\* Lines 173-224: the chart built from the series and its statistics.
chartOf(pts, name, showDev, f, mean, stddev) ==
  [plotted |-> TRUE,
   title |-> name,
   series |-> seriesOf(pts),
   mean |-> mean,
   stddev |-> stddev,
   meanL |-> meanLine(datetimesOf(pts), mean),
   band |-> bandShown(showDev, stddev),
   upper |-> IF bandShown(showDev, stddev)
             THEN bandLine(datetimesOf(pts), valuesOf(pts), mean, stddev)
             ELSE <<>>,
   lower |-> IF bandShown(showDev, stddev)
             THEN bandLine(datetimesOf(pts), valuesOf(pts), mean, -stddev)
             ELSE <<>>,
   format |-> formatOf(f),
   tickCount |-> qMin(10, Len(pts))]

chartWithMean(pts, name, showDev, f, mean) ==
  chartOf(pts, name, showDev, f, mean, stddevOf(valuesOf(pts), mean))

\* Lines 148-224: the chart handed to setChart.  mean and stddev are the
\* function's locals, kept with the chart.
plotLineStat(pts, name, showDev, f) ==
  chartWithMean(pts, name, showDev, f, meanOf(valuesOf(pts)))

(***************************************************************************)
(* The values the other functions' variables hold while one is checked.    *)
(***************************************************************************)
NoChart == [plotted |-> FALSE]
NoColour == ""

ParseIdle ==
  /\ doc = JNull /\ result = <<>> /\ src = <<>>
FonIdle ==
  /\ temp_c = 0 /\ colour = NoColour
StatIdle ==
  /\ xys = <<>> /\ showDeviation = FALSE /\ chart = NoChart

\* The main window as its constructor leaves it (lines 256-268, 472-599):
\* no request sent, no window open, the label with its placeholder text,
\* nine charts without a QChart of their own, forecastData empty.
NoCallback == [active |-> FALSE]
NoLabel == [set |-> FALSE]
NoReply == [id |-> 0, body |-> "", freq |-> ""]
NoOp == [op |-> "none", city |-> "", showDev |-> FALSE, freq |-> "", id |-> 0,
         outcome |-> ""]
FourCharts == [j \in 1..4 |-> NoChart]
AppIdle ==
  /\ net = {} /\ nextId = 1 /\ windows = <<>>
  /\ currLabel = NoLabel /\ background = NoColour /\ currChart = NoChart
  /\ forecastData = <<>> /\ dialogCharts = <<>>
  /\ statCharts = FourCharts /\ avgCharts = FourCharts
  /\ running = NoCallback /\ lastOp = NoOp /\ crashed = FALSE
  /\ statFrom = [j \in 1..4 |-> 0] /\ avgFrom = [j \in 1..4 |-> 0]
  /\ good = {} /\ lastGood = [stat |-> NoReply, avg |-> NoReply]
  /\ everStored = FALSE /\ calls = {}

(***************************************************************************)
(* SpecParse: parseVisualCrossingJson applied once to a document.          *)
(***************************************************************************)
InitParse ==
  /\ \/ \E p \in Patterns, shapes \in ShapeLists : doc = scheduleDoc(p, shapes)
     \/ doc \in MalformedDocs
  /\ freq \in Freqs
  /\ result = <<>>
  /\ src = <<>>
  /\ pc = "input"
  /\ FonIdle
  /\ StatIdle
  /\ AppIdle

\* auto list = parseVisualCrossingJson(doc, freq);
Parse ==
  /\ pc = "input"
  /\ result' = parseVisualCrossingJson(doc, freq)
  /\ src' = sourcesOf(parseSamples(doc, freq))
  /\ pc' = "done"
  /\ UNCHANGED <<doc, freq, temp_c, colour, xys, showDeviation, chart>>
  /\ UNCHANGED appVars

SpecParse == InitParse /\ [][Parse]_vars

(***************************************************************************)
(* What the claims about the parser speak of, read off the document        *)
(* itself.                                                                 *)
(***************************************************************************)
\* The document has a "days" array.
HasDays == doc.t = "obj" /\ "days" \in DOMAIN doc.o /\ doc.o["days"].t = "arr"
TheDays == IF HasDays THEN doc.o["days"].a ELSE <<>>

IsDayObject(dayV) == dayV.t = "obj"
HasHoursKey(dayV) == dayV.t = "obj" /\ "hours" \in DOMAIN dayV.o
HasHoursList(dayV) == HasHoursKey(dayV) /\ dayV.o["hours"].t = "arr"
HoursIn(dayV) == IF HasHoursList(dayV) THEN dayV.o["hours"].a ELSE <<>>

\* The stride the spec gives a frequency: 1, 3, 6, 12, 24, and 1 for an
\* unrecognised one.
StrideOf(f) ==
  CASE f = "1h" -> 1 [] f = "3h" -> 3 [] f = "6h" -> 6 [] f = "12h" -> 12
    [] f = "1d" -> 24 [] OTHER -> 1

CeilDiv(n, m) == (n + m - 1) \div m

RECURSIVE SumOver(_, _)
SumOver(f, n) == IF n = 0 THEN 0 ELSE f[n] + SumOver(f, n - 1)

TotalEntries == SumOver([k \in 1..Len(TheDays) |-> Len(HoursIn(TheDays[k]))], Len(TheDays))

\* The samples of result that came from day d (0-based).
SamplesOfDay(d) == { j \in 1..Len(src) : src[j][1] = d }

\* Lexicographic order on <<day index, hour index>>.
Before(a, b) == a[1] < b[1] \/ (a[1] = b[1] /\ a[2] < b[2])

\* The entry a sample came from, and the day it lies in.
DayOf(j) == TheDays[src[j][1] + 1]
EntryOf(j) == HoursIn(DayOf(j))[src[j][2] + 1]

\* A numeric field of an entry, 0 when absent or not a number.
NumberOrZero(e, key) ==
  IF e.t = "obj" /\ key \in DOMAIN e.o /\ e.o[key].t = "num" THEN e.o[key].n ELSE 0

\* A string field of a value, "" when absent or not a string.
StringOrEmpty(e, key) ==
  IF e.t = "obj" /\ key \in DOMAIN e.o /\ e.o[key].t = "str" THEN e.o[key].s ELSE ""

\* The well-formed date strings and time strings, and a string's place.
AllDates == { DateStrings[a] : a \in DOMAIN DateStrings }
AllTimes == { TimeStrings[b] : b \in DOMAIN TimeStrings }
IndexIn(strings, s) == CHOOSE a \in DOMAIN strings : strings[a] = s

\* C1: for a recognised frequency, each day with an hours list of n entries
\* yields exactly ceil(n / interval) samples; the output length is the sum of
\* these counts and never exceeds the number of hourly entries.
C1_CountPerDay ==
  (pc = "done" /\ freq \in Recognised) =>
    /\ \A k \in 1..Len(TheDays) :
         HasHoursList(TheDays[k]) =>
           Cardinality(SamplesOfDay(k - 1))
             = CeilDiv(Len(HoursIn(TheDays[k])), StrideOf(freq))
    /\ Len(result)
         = SumOver([k \in 1..Len(TheDays) |->
                      CeilDiv(Len(HoursIn(TheDays[k])), StrideOf(freq))],
                   Len(TheDays))
    /\ Len(result) <= TotalEntries

\* C1 witness: 7 entries then 25 entries sampled every 6 hours: 2 + 5 samples.
C1_Witness ==
  /\ pc = "done" /\ freq = "6h" /\ Len(TheDays) = 2
  /\ Len(HoursIn(TheDays[1])) = 7 /\ Len(HoursIn(TheDays[2])) = 25
  /\ Len(result) = 7

\* C2: the output is exactly the entries whose index within their own day is
\* a multiple of the interval, in document order: the stride restarts at 0 on
\* every day, day indices never decrease, hour indices strictly increase
\* within a day, and no entry is emitted twice or dropped.
C2_StrideOrder ==
  pc = "done" =>
    /\ Len(src) = Len(result)
    /\ { src[j] : j \in 1..Len(src) }
         = { x \in (0..MaxDays) \X (0..MaxHours) :
               /\ x[1] < Len(TheDays)
               /\ x[2] < Len(HoursIn(TheDays[x[1] + 1]))
               /\ x[2] % StrideOf(freq) = 0 }
    /\ \A j \in 1..Len(src) - 1 : Before(src[j], src[j + 1])
    /\ \A j \in 1..Len(src) : \A i \in 1..(j - 1) :
         /\ src[i][1] <= src[j][1]
         /\ (src[i][1] = src[j][1] => src[i][2] < src[j][2])
    /\ \A j \in 1..Len(result) :
         result[j] = pointOf(EntryOf(j), toString(at(toObject(DayOf(j)), "datetime")))

\* C2 witness: two days of 4 entries sampled every 3 hours; the second day
\* starts again at its index 0 although the first ended at index 3.
C2_Witness ==
  /\ pc = "done" /\ freq = "3h" /\ Len(TheDays) = 2
  /\ Len(HoursIn(TheDays[1])) = 4 /\ Len(HoursIn(TheDays[2])) = 4
  /\ src = << <<0, 0>>, <<0, 3>>, <<1, 0>>, <<1, 3>> >>

\* C3: a frequency string that is none of "1h", "3h", "6h", "12h", "1d"
\* (the empty string included) gives the same sequence as "1h" gives on that
\* document, one sample per hourly entry.
C3_UnrecognisedIsHourly ==
  (pc = "done" /\ freq \notin Recognised) =>
    /\ result = parseVisualCrossingJson(doc, "1h")
    /\ Len(result) = TotalEntries

\* C3 witness: the empty frequency string on a document with entries.
C3_Witness ==
  pc = "done" /\ freq = "" /\ Len(result) > 3 /\ Len(TheDays) = 2

\* C4: with "1h" there is one sample per hourly entry; every sample carries
\* the four numbers of its own source entry, 0 for a field that is absent or
\* not a number, and the timestamp spelled by its day's date string and the
\* entry's time string, invalid when these do not spell one; the sample is
\* emitted all the same.
C4_FieldsOfOwnEntry ==
  pc = "done" =>
    /\ freq = "1h" => Len(result) = TotalEntries
    /\ \A j \in 1..Len(result) :
         LET e == EntryOf(j)
             date == StringOrEmpty(DayOf(j), "datetime")
             time == StringOrEmpty(e, "datetime")
         IN  /\ result[j].temperature = NumberOrZero(e, "temp")
             /\ result[j].pressure = NumberOrZero(e, "pressure")
             /\ result[j].humidity = NumberOrZero(e, "humidity")
             /\ result[j].windspeed = NumberOrZero(e, "windspeed")
             /\ IF date \in AllDates /\ time \in AllTimes
                THEN result[j].datetime
                       = DateTime((IndexIn(DateStrings, date) - 1) * HoursPerDay
                                    + (IndexIn(TimeStrings, time) - 1))
                ELSE result[j].datetime = InvalidDateTime

\* C4 witness: hourly sampling; a sample whose entry is not an object (no
\* time, all fields 0) is followed by a well-formed sample.
C4_Witness ==
  /\ pc = "done" /\ freq = "1h"
  /\ \E j \in 1..Len(result) - 1 :
       /\ EntryOf(j).t # "obj"
       /\ result[j].datetime = InvalidDateTime /\ result[j].pressure = 0
       /\ result[j + 1].datetime.valid /\ result[j + 1].pressure > 0
       /\ result[j + 1].humidity > 0

\* The document without its day objects that have no "hours" key.
RECURSIVE DropHourless(_)
DropHourless(days) ==
  IF days = <<>> THEN <<>>
  ELSE (IF IsDayObject(Head(days)) /\ ~HasHoursKey(Head(days))
        THEN <<>> ELSE <<Head(days)>>) \o DropHourless(Tail(days))

WithoutHourlessDays ==
  IF HasDays
  THEN JObj([k \in DOMAIN doc.o |->
               IF k = "days" THEN JArr(DropHourless(TheDays)) ELSE doc.o[k]])
  ELSE doc

\* C5: a day object without an "hours" key contributes no sample, and the
\* output is what it would be with that day absent from the document.
C5_HourlessDaySkipped ==
  pc = "done" =>
    /\ \A j \in 1..Len(src) : HasHoursKey(DayOf(j))
    /\ result = parseVisualCrossingJson(WithoutHourlessDays, freq)

\* C5 witness: the first day has no "hours" key, the second one is sampled.
C5_Witness ==
  /\ pc = "done" /\ Len(TheDays) = 2
  /\ IsDayObject(TheDays[1]) /\ ~HasHoursKey(TheDays[1])
  /\ Len(result) > 0 /\ src[1][1] = 1

\* C6: a document that is null, is not an object, has no "days" key or has a
\* "days" value that is no array gives an empty sequence, for every frequency;
\* so does the test file's copy of the function.
C6_MalformedIsEmpty ==
  (pc = "done" /\ ~HasDays) =>
    /\ result = <<>>
    /\ parseVisualCrossingJsonTestCopy(doc, freq) = <<>>

\* C6 witness: each of the four malformed kinds has been parsed; here the one
\* whose "days" is a day object with two entries.
C6_Witness ==
  /\ pc = "done" /\ doc.t = "obj" /\ "days" \in DOMAIN doc.o
  /\ doc.o["days"].t = "obj" /\ HasHoursList(doc.o["days"])
  /\ result = <<>>

(***************************************************************************)
(* fon (src/main.cpp:34-44).  A temperature t stands for t / TempScale     *)
(* degrees, so that temp_c < -20 reads t < -20 * TempScale.                *)
(***************************************************************************)
Deg(n) == n * TempScale

\* Lines 34-44 with the second branch written as a range that starts above
\* -20: the value -20 itself falls through every test of the rewritten chain
\* and an invalid (default) QColor is returned.
fon_gap(t) ==
  IF t < Deg(-20) THEN "#191970"
  ELSE IF t > Deg(-20) /\ t <= Deg(-10) THEN "#4682B4"
  ELSE IF t > Deg(-10) /\ t <= Deg(-5) THEN "#B0E0E6"
  ELSE IF t > Deg(-5) /\ t <= Deg(0) THEN "#E0FFFF"
  ELSE IF t > Deg(0) /\ t <= Deg(10) THEN "#FFE4B5"
  ELSE IF t > Deg(10) /\ t <= Deg(15) THEN "#DEB887"
  ELSE IF t > Deg(15) /\ t < Deg(21) THEN "#DAA520"
  ELSE IF t >= Deg(21) /\ t < Deg(26) THEN "#FF8C00"
  ELSE IF t >= Deg(26) THEN "#B22222"
  ELSE NoColour

\* Lines 34-44 with < for <= in the test against 10.
fon_strict10(t) ==
  IF t < Deg(-20) THEN "#191970"
  ELSE IF t <= Deg(-10) THEN "#4682B4"
  ELSE IF t <= Deg(-5) THEN "#B0E0E6"
  ELSE IF t <= Deg(0) THEN "#E0FFFF"
  ELSE IF t < Deg(10) THEN "#FFE4B5"
  ELSE IF t <= Deg(15) THEN "#DEB887"
  ELSE IF t < Deg(21) THEN "#DAA520"
  ELSE IF t < Deg(26) THEN "#FF8C00"
  ELSE "#B22222"

\* Lines 34-44: the if / else-if chain, first test that holds wins.
fon(t) ==
  IF t < Deg(-20) THEN "#191970"
  ELSE IF t <= Deg(-10) THEN "#4682B4"
  ELSE IF t <= Deg(-5) THEN "#B0E0E6"
  ELSE IF t <= Deg(0) THEN "#E0FFFF"
  ELSE IF t <= Deg(10) THEN "#FFE4B5"
  ELSE IF t <= Deg(15) THEN "#DEB887"
  ELSE IF t < Deg(21) THEN "#DAA520"
  ELSE IF t < Deg(26) THEN "#FF8C00"
  ELSE "#B22222"

(***************************************************************************)
(* SpecFon: fon applied once to a temperature.                             *)
(***************************************************************************)
Temps == Deg(-TempLimit)..Deg(TempLimit)

InitFon ==
  /\ temp_c \in Temps
  /\ colour = NoColour
  /\ pc = "input"
  /\ freq = "1h"
  /\ ParseIdle
  /\ StatIdle
  /\ AppIdle

\* QColor c = fon(temp_c);
Fon ==
  /\ pc = "input"
  /\ colour' = fon(temp_c)
  /\ pc' = "done"
  /\ UNCHANGED <<doc, freq, result, src, temp_c, xys, showDeviation, chart>>
  /\ UNCHANGED appVars

SpecFon == InitFon /\ [][Fon]_vars

(***************************************************************************)
(* The nine bands of spec section 4.3 and their palette.  A band is        *)
(* <<kind of lower bound, lower, kind of upper bound, upper>> in degrees,  *)
(* a kind being "open", "closed" or "none" (unbounded).                     *)
(***************************************************************************)
Palette ==
  <<"#191970", "#4682B4", "#B0E0E6", "#E0FFFF", "#FFE4B5", "#DEB887",
    "#DAA520", "#FF8C00", "#B22222">>

\* < -20, [-20,-10], (-10,-5], (-5,0], (0,10], (10,15], [15,21), [21,26), >= 26
ListedBands ==
  << <<"none", 0, "open", -20>>,
     <<"closed", -20, "closed", -10>>,
     <<"open", -10, "closed", -5>>,
     <<"open", -5, "closed", 0>>,
     <<"open", 0, "closed", 10>>,
     <<"open", 10, "closed", 15>>,
     <<"closed", 15, "open", 21>>,
     <<"closed", 21, "open", 26>>,
     <<"closed", 26, "none", 0>> >>

\* The same list with the seventh band open at 15: (15,21).
DisjointBands == [ListedBands EXCEPT ![7] = <<"open", 15, "open", 21>>]

InBand(b, t) ==
  /\ CASE b[1] = "none" -> TRUE
       [] b[1] = "open" -> t > Deg(b[2])
       [] b[1] = "closed" -> t >= Deg(b[2])
  /\ CASE b[3] = "none" -> TRUE
       [] b[3] = "open" -> t < Deg(b[4])
       [] b[3] = "closed" -> t <= Deg(b[4])

Matching(bands, t) == { b \in DOMAIN bands : InBand(bands[b], t) }

PaletteColours == { Palette[b] : b \in DOMAIN Palette }

\* C7 as claimed: for every temperature exactly one of the nine listed bands
\* matches, and fon returns one colour of the palette.
C7_ListedBandsPartition ==
  pc = "done" =>
    /\ Cardinality(Matching(ListedBands, temp_c)) = 1
    /\ colour \in PaletteColours

\* C7 as amended: with the seventh band read as (15,21), for every
\* temperature, the boundary values included, exactly one of the nine bands
\* matches, and fon returns one colour of the palette, never an invalid one.
C7_DisjointBandsPartition ==
  pc = "done" =>
    /\ Cardinality(Matching(DisjointBands, temp_c)) = 1
    /\ colour \in PaletteColours

\* C7 witness: fon has run at 15 degrees, which only the sixth band (10,15]
\* of the amended list holds, while two of the listed bands hold it.
C7_Witness ==
  /\ pc = "done" /\ temp_c = Deg(15)
  /\ Matching(DisjointBands, temp_c) = {6}
  /\ Matching(ListedBands, temp_c) = {6, 7}
  /\ colour \in PaletteColours

\* C8 as claimed: fon(t) is the palette colour of the listed band that holds
\* t, every boundary value mapping by the inclusive/exclusive rule of the list.
C8_ColourOfListedBand ==
  pc = "done" =>
    \A b \in Matching(ListedBands, temp_c) : colour = Palette[b]

\* C8 as amended: fon(t) is the palette colour of the band that holds t in
\* the list with the seventh band read as (15,21); 15 maps to #DEB887.
C8_ColourOfDisjointBand ==
  pc = "done" =>
    /\ Matching(DisjointBands, temp_c) # {}
    /\ \A b \in Matching(DisjointBands, temp_c) : colour = Palette[b]

\* C8 witness: fon has run at 15 degrees and returned the colour of (10,15],
\* not that of the listed band [15,21).
C8_Witness ==
  pc = "done" /\ temp_c = Deg(15) /\ colour = "#DEB887" /\ colour # Palette[7]

(***************************************************************************)
(* SpecStat: plotLineStat applied once to a non-empty series, as its       *)
(* callers apply it (src/main.cpp:355, 441).  The timestamps start at one  *)
(* of two instants and are evenly spaced; the values are doubles.          *)
(***************************************************************************)
SampleValues == {-48, 0, 32, 48, 80}
Starts == {0, 7}
Spacings == {1, 3}

Series ==
  UNION { { [i \in 1..n |-> <<start + (i - 1) * step, ys[i]>>] :
              start \in Starts, step \in Spacings, ys \in [1..n -> SampleValues] } :
          n \in 1..MaxPoints }

InitStat ==
  /\ xys \in Series
  /\ showDeviation \in BOOLEAN
  /\ freq \in Recognised
  /\ chart = NoChart
  /\ pc = "input"
  /\ ParseIdle
  /\ FonIdle
  /\ AppIdle

\* chart->plotLineStat(xys, name, color, showDeviation, freq);
PlotLineStat ==
  /\ pc = "input"
  /\ chart' = plotLineStat(xys, "Temperature", showDeviation, freq)
  /\ pc' = "done"
  /\ UNCHANGED <<doc, freq, result, src, temp_c, colour, xys, showDeviation>>
  /\ UNCHANGED appVars

SpecStat == InitStat /\ [][PlotLineStat]_vars

\* C9: for a non-empty series plotted with showDeviation set and a standard
\* deviation > 0, the upper and lower band have one point per sample, at the
\* sample's own timestamp and in input order, with the values (sample value +
\* stddev) and (sample value - stddev), offset from the sample's own value and
\* not from the mean; the mean series has one point per sample at the same
\* timestamps, all with the value mean.
C9_BandAroundSamples ==
  (chart.plotted /\ showDeviation /\ chart.stddev > 0) =>
    /\ chart.band
    /\ Len(chart.upper) = Len(xys)
    /\ Len(chart.lower) = Len(xys)
    /\ Len(chart.meanL) = Len(xys)
    /\ \A i \in 1..Len(xys) :
         /\ chart.upper[i] = <<xys[i][1], FAdd(xys[i][2], chart.stddev)>>
         /\ chart.lower[i] = <<xys[i][1], FSub(xys[i][2], chart.stddev)>>
         /\ chart.meanL[i] = <<xys[i][1], chart.mean>>
    /\ chart.mean = meanOf([i \in 1..Len(xys) |-> xys[i][2]])

\* C9 witness: a band drawn for three samples, whose first upper point lies
\* off the line mean + stddev.
C9_Witness ==
  /\ chart.plotted /\ showDeviation /\ chart.stddev > 0 /\ Len(xys) = 3
  /\ chart.upper[1][2] # FAdd(chart.mean, chart.stddev)
  /\ chart.upper[1][2] > xys[1][2]
  /\ chart.lower[1][2] < xys[1][2]

AllEqual(pts) == \A i \in 1..Len(pts) : pts[i][2] = pts[1][2]

\* C10 as claimed: for a series whose values are all equal (a single-element
\* series among them), plotted with showDeviation set, mean is that value,
\* stddev is 0, and the upper and lower band points are the samples' own
\* (timestamp, value).
C10_BandCollapses ==
  (chart.plotted /\ showDeviation /\ AllEqual(xys)) =>
    /\ chart.mean = xys[1][2]
    /\ chart.stddev = 0
    /\ chart.upper = xys
    /\ chart.lower = xys

\* C10 as amended: for a single-element series mean is that value and stddev
\* is 0; no band is added to the chart, with showDeviation set or not, and
\* the one point of the mean series is the sample's own (timestamp, value).
C10_SingleSample ==
  (chart.plotted /\ Len(xys) = 1) =>
    /\ chart.mean = xys[1][2]
    /\ chart.stddev = 0
    /\ ~chart.band
    /\ chart.upper = <<>>
    /\ chart.lower = <<>>
    /\ chart.meanL = xys
    /\ chart.series = xys

\* C10 witness: a single sample of a value other than 0 plotted with
\* showDeviation set.
C10_Witness ==
  /\ chart.plotted /\ Len(xys) = 1 /\ showDeviation /\ xys[1][2] # 0
  /\ chart.mean = xys[1][2] /\ ~chart.band

\* Not a property of the code: the mean of equal values is that value.  The
\* running sum of three equal doubles is rounded, and a third of the rounded
\* sum can differ from the value (with doubles: 0.1, 0.1, 0.1); the deviation
\* is then positive and a band is drawn.
AllEqualHaveExactMean ==
  (chart.plotted /\ AllEqual(xys)) => (chart.mean = xys[1][2] /\ chart.stddev = 0)

(***************************************************************************)
(* The main window (src/main.cpp:249-609).                                 *)
(*                                                                         *)
(* A click on a button runs its handler; a request the handler sends stays *)
(* in `net` until its reply finishes, with a network error or with a body, *)
(* and the callback connected to QNetworkReply::finished then runs.  All   *)
(* of them run on the one thread of Qt's event loop, so a handler or       *)
(* callback runs to its end before the next one starts.  QMessageBox::     *)
(* critical and QDialog::exec open a modal window and run a nested event   *)
(* loop: the buttons of the main window are blocked while a modal window   *)
(* is open, replies still finish and run their callbacks.                  *)
(***************************************************************************)
MaxRequests == 2    \* requests the clicks of one run send

\* The texts of the message boxes, in English (lines 278, 290, 356-357,
\* 417, 434-435 and 442), and the dialog of showFourChartsCurrent.
EnterCityNameMessage == "Enter the name of the city!"
CityNotFoundMessage == "City not found."
FindCityFirstMessage == "First enter a city and press 'Find'"
EnterCityMessage == "Enter a city!"
DataErrorMessage == "Error getting data."
NoDataMessage == "No data to display."
ChartsDialog == "chartsDialog"

\* What the user has typed into a city field, and the items of the
\* frequency boxes the model uses (lines 517, 565).
Cities == {"", " ", "Perm"}
AppFreqs == {"1h", "1d"}

\* QString::trimmed() and QString::isEmpty() on the texts of Cities.
trimmed(s) == IF s = " " THEN "" ELSE s
isEmpty_blank(s) == s = " "
isEmpty(s) == s = ""

\* QJsonDocument::fromJson reads a decimal number as the double nearest to it.
JNumber(n) == JNum(Round(n * Pow2(QuantumBits), 1))

\* The literals 273.15 (lines 297, 298, 334) and 5 (lines 131, 132).
Kelvin == Round(27315 * Pow2(QuantumBits), 100)
Five == 5 * Pow2(QuantumBits)

\* int(x) of a double: truncation toward zero (lines 305, 306).
truncate(x) == Sign(x) * (Abs(x) \div Pow2(QuantumBits))

\* QJsonValue::toInt(): the number when it is a whole one, else 0.
toInt(v) ==
  IF v.t = "num" /\ v.n % Pow2(QuantumBits) = 0
  THEN v.n \div Pow2(QuantumBits) ELSE 0

\* A double as the argument of fon, in units of 1/TempScale degree.  The
\* temperatures of the bodies below are whole degrees.
tempUnits(x) == (x * TempScale) \div Pow2(QuantumBits)

\* QDateTime::toString("HH:mm") (line 342); empty for an invalid QDateTime.
ClockStrings ==
  <<"00:00", "01:00", "02:00", "03:00", "04:00", "05:00", "06:00", "07:00",
    "08:00", "09:00", "10:00", "11:00", "12:00", "13:00", "14:00", "15:00",
    "16:00", "17:00", "18:00", "19:00", "20:00", "21:00", "22:00", "23:00">>
clockOf(dt) == IF dt.valid THEN ClockStrings[(dt.h % HoursPerDay) + 1] ELSE ""

(***************************************************************************)
(* The bodies a reply can carry.  "malformed" is a body that is no JSON    *)
(* document (an HTML page of a proxy, an empty body): fromJson gives a     *)
(* null document.  The other bodies follow the layout of the service.      *)
(***************************************************************************)
NetworkError == "error"
CurrentBodies == {"malformed", "warm"}
ForecastBodies == {"malformed", "one", "two"}
StatBodies == {"malformed", "short", "long"}

mainOf(kelvin, feels, pressure, humidity) ==
  JObj(("temp" :> JNumber(kelvin)) @@ ("feels_like" :> JNumber(feels))
         @@ ("pressure" :> JNumber(pressure)) @@ ("humidity" :> JNumber(humidity)))
windOf(speed) == JObj("speed" :> JNumber(speed))

currentBody(b) ==
  IF b = "warm"
  THEN JObj(("main" :> mainOf(300, 296, 1000, 64)) @@ ("wind" :> windOf(3)))
  ELSE JNull

forecastEntry(b, i) ==
  JObj(("dt_txt" :> JStr(DateStrings[1] \o " " \o TimeStrings[3 * i + 1]))
         @@ ("main" :> mainOf(IF b = "one" THEN 250 ELSE 280 + 20 * i, 0,
                               1000 + 30 * i, 40 + 8 * i))
         @@ ("wind" :> windOf(i + 2)))

forecastBody(b) ==
  IF b = "one" THEN JObj("list" :> JArr(<<forecastEntry(b, 0)>>))
  ELSE IF b = "two"
  THEN JObj("list" :> JArr(<<forecastEntry(b, 0), forecastEntry(b, 1)>>))
  ELSE JNull

statHour(b, i) ==
  JObj(("datetime" :> JStr(timeAt(i)))
         @@ ("temp" :> JNumber(IF b = "short" THEN 8 + 4 * i ELSE 16 - 6 * i))
         @@ ("pressure" :> JNumber(IF b = "short" THEN 1000 ELSE 900 + 60 * i))
         @@ ("humidity" :> JNumber(40 + 8 * i))
         @@ ("windspeed" :> JNumber(i + 1)))

statBody(b) ==
  IF b = "malformed" THEN JNull
  ELSE JObj("days" :> JArr(<<
         JObj(("datetime" :> JStr(DateStrings[1]))
                @@ ("hours" :> JArr([k \in 1..(IF b = "short" THEN 2 ELSE 3) |->
                                       statHour(b, k - 1)])))>>))

(***************************************************************************)
(* The forecast callback's loop (lines 323-345) and plotBarColored         *)
(* (lines 112-137).                                                        *)
(***************************************************************************)
\* Lines 331-339: the WeatherPoint of one entry of the forecast list.
forecastPoint(v) ==
  [datetime |-> fromString(toString(at(toObject(v), "dt_txt"))),
   temperature |->
     FSub(toDouble(at(toObject(at(toObject(v), "main")), "temp")), Kelvin),
   pressure |-> toDouble(at(toObject(at(toObject(v), "main")), "pressure")),
   humidity |-> toDouble(at(toObject(at(toObject(v), "main")), "humidity")),
   windspeed |-> toDouble(at(toObject(at(toObject(v), "wind")), "speed"))]

\* Lines 323, 330-339: one point per entry of fdoc.object()["list"], in order.
forecastList(arr) == [i \in 1..Len(arr) |-> forecastPoint(arr[i])]
forecastOf(d) == forecastList(toArray(at(docObject(d), "list")))

\* Lines 342-344: the labels, heights and colours of the bars.
timesOf(pts) == [i \in 1..Len(pts) |-> clockOf(pts[i].datetime)]
tempsOf(pts) == [i \in 1..Len(pts) |-> pts[i].temperature]
colorsOf(pts) == [i \in 1..Len(pts) |-> fon(tempUnits(pts[i].temperature))]

\* *std::min_element and *std::max_element of a non-empty vector.
minElement(temps) ==
  CHOOSE v \in { temps[i] : i \in DOMAIN temps } :
    \A i \in DOMAIN temps : v <= temps[i]
maxElement(temps) ==
  CHOOSE v \in { temps[i] : i \in DOMAIN temps } :
    \A i \in DOMAIN temps : v >= temps[i]

\* Lines 114-136: the bar chart.  setColor is called on the one bar set for
\* every colour in turn, which leaves the last one.
barChartOf(times, temps, colors, lo, hi, rangeRead) ==
  [plotted |-> TRUE,
   title |-> "Temperature in the next 24 hours",
   bars |-> temps,
   colour |-> IF Len(colors) = 0 THEN NoColour ELSE colors[Len(colors)],
   categories |-> times,
   rangeRead |-> rangeRead,
   lo |-> lo,
   hi |-> hi]

\* Lines 112-137 for at least one temperature: the range of the value axis
\* is min - 5 .. max + 5.
plotBarColored(times, temps, colors) ==
  barChartOf(times, temps, colors, FSub(minElement(temps), Five),
             FAdd(maxElement(temps), Five), TRUE)

\* Lines 112-137 for no temperature, when the process survives lines 131-132:
\* min_element and max_element return temps.end(), and what is read through
\* it is indeterminate.
plotBarColoredEmpty == barChartOf(<<>>, <<>>, <<>>, 0, 0, FALSE)

(***************************************************************************)
(* The four series of showFourChartsCurrent and of the getPlotStat         *)
(* callback (lines 368-380, 446-457).  The points of the bodies above      *)
(* have valid datetimes.                                                   *)
(***************************************************************************)
Names == <<"Temperature", "Pressure", "Humidity", "Wind speed">>

fieldOf(pt, j) ==
  IF j = 1 THEN pt.temperature
  ELSE IF j = 2 THEN pt.pressure
  ELSE IF j = 3 THEN pt.humidity
  ELSE pt.windspeed

seriesXY(list, j) ==
  [i \in 1..Len(list) |->
     <<toMSecsSinceEpoch(list[i].datetime), fieldOf(list[i], j)>>]

\* Lines 384-389: plotLineStat, then the axis format set to "HH:mm".
dialogChart(list, j) ==
  [plotLineStat(seriesXY(list, j), Names[j], FALSE, "3h") EXCEPT !.format = "HH:mm"]

\* Lines 460-463 with every reply drawn on the charts of the deviation tab.
target_always(showDev) == "statCharts"

\* Lines 460-463: the charts a getPlotStat callback draws on.
target(showDev) == IF showDev THEN "statCharts" ELSE "avgCharts"

\* Lines 303-309: the fields of the label.
labelOf(d) ==
  [set |-> TRUE,
   temp |-> truncate(FSub(toDouble(at(toObject(at(docObject(d), "main")), "temp")), Kelvin)),
   feels |->
     truncate(FSub(toDouble(at(toObject(at(docObject(d), "main")), "feels_like")), Kelvin)),
   humidity |-> toInt(at(toObject(at(docObject(d), "main")), "humidity")),
   pressure |-> toInt(at(toObject(at(docObject(d), "main")), "pressure")),
   wind |-> toDouble(at(toObject(at(docObject(d), "wind")), "speed"))]

\* Lines 297, 310-311: the colour of the background.
backgroundOf(d) ==
  fon(tempUnits(FSub(toDouble(at(toObject(at(docObject(d), "main")), "temp")), Kelvin)))

(***************************************************************************)
(* SpecApp: the handlers and callbacks of the main window.                 *)
(***************************************************************************)
\* A request in flight.  The city is part of the URL only and not kept.
Request(id, kind, showDev, f) ==
  [id |-> id, kind |-> kind, showDev |-> showDev, freq |-> f]

Op(op, city, showDev, f, id, outcome) ==
  [op |-> op, city |-> city, showDev |-> showDev, freq |-> f, id |-> id,
   outcome |-> outcome]

Call(op, n) == [op |-> op, n |-> n]

InitApp ==
  /\ pc = "app"
  /\ freq = "1h"
  /\ ParseIdle
  /\ FonIdle
  /\ StatIdle
  /\ AppIdle

\* The event loop can start a handler or callback: the process runs and no
\* callback is inside its loop.
Ready == pc = "app" /\ ~crashed /\ ~running.active

\* The main window's buttons take clicks: no modal window is open.
Clickable == Ready /\ windows = <<>>

\* getWeather (lines 275-287), on a click on "Find".
GetWeather ==
  /\ Clickable
  /\ \E text \in Cities :
       IF isEmpty(trimmed(text))
       THEN /\ windows' = Append(windows, EnterCityNameMessage)
            /\ lastOp' = Op("getWeather", text, FALSE, "", 0, "")
            /\ UNCHANGED <<net, nextId>>
       ELSE /\ nextId <= MaxRequests
            /\ net' = net \cup {Request(nextId, "weather", FALSE, "")}
            /\ nextId' = nextId + 1
            /\ lastOp' = Op("getWeather", text, FALSE, "", nextId, "")
            /\ UNCHANGED windows
  /\ UNCHANGED <<currLabel, background, currChart, forecastData, dialogCharts,
                 statCharts, avgCharts, running, crashed, statFrom, avgFrom,
                 good, lastGood, everStored, calls>>
  /\ UNCHANGED pureVars /\ UNCHANGED pc

\* The callback of the current-weather reply (lines 288-317).
CurrentWeatherFinished ==
  /\ Ready
  /\ \E r \in net, o \in {NetworkError} \cup CurrentBodies :
       /\ r.kind = "weather"
       /\ lastOp' = Op("currentWeatherFinished", "", FALSE, "", r.id, o)
       /\ IF o = NetworkError
          THEN /\ windows' = Append(windows, CityNotFoundMessage)
               /\ net' = net \ {r}
               /\ UNCHANGED <<currLabel, background>>
          ELSE /\ currLabel' = labelOf(currentBody(o))
               /\ background' = backgroundOf(currentBody(o))
               /\ net' = (net \ {r}) \cup {Request(r.id, "forecast", FALSE, "")}
               /\ UNCHANGED windows
  /\ UNCHANGED <<nextId, currChart, forecastData, dialogCharts, statCharts,
                 avgCharts, running, crashed, statFrom, avgFrom, good,
                 lastGood, everStored, calls>>
  /\ UNCHANGED pureVars /\ UNCHANGED pc

\* Lines 321-345: the points the loop stores for each body.
storedOf == [b \in ForecastBodies |-> forecastOf(forecastBody(b))]

\* The callback of the forecast reply (lines 318-347).  With no entry in
\* the list, plotBarColored dereferences temps.end() (lines 131-132): the
\* process ends there, or goes on with an indeterminate axis range.
ForecastFinished ==
  /\ Ready
  /\ \E r \in net, o \in {NetworkError} \cup ForecastBodies :
       /\ r.kind = "forecast"
       /\ lastOp' = Op("forecastFinished", "", FALSE, "", r.id, o)
       /\ net' = net \ {r}
       /\ IF o = NetworkError
          THEN UNCHANGED <<forecastData, currChart, crashed, everStored, calls>>
          ELSE /\ forecastData' = storedOf[o]
               /\ everStored' = (everStored \/ Len(storedOf[o]) > 0)
               /\ calls' = calls \cup {Call("plotBarColored", Len(storedOf[o]))}
               /\ IF Len(storedOf[o]) = 0
                  THEN \/ crashed' = TRUE /\ UNCHANGED currChart
                       \/ currChart' = plotBarColoredEmpty /\ UNCHANGED crashed
                  ELSE /\ currChart' =
                            plotBarColored(timesOf(storedOf[o]), tempsOf(storedOf[o]),
                                           colorsOf(storedOf[o]))
                       /\ UNCHANGED crashed
  /\ UNCHANGED <<nextId, windows, currLabel, background, dialogCharts,
                 statCharts, avgCharts, running, statFrom, avgFrom, good,
                 lastGood>>
  /\ UNCHANGED pureVars /\ UNCHANGED pc

\* showFourChartsCurrent (lines 354-402), on a click on its button, up to
\* chartsDialog->exec().
ShowFourChartsCurrent ==
  /\ Clickable
  /\ lastOp' = Op("showFourChartsCurrent", "", FALSE, "", 0, "")
  /\ IF Len(forecastData) = 0
     THEN /\ windows' = Append(windows, FindCityFirstMessage)
          /\ UNCHANGED <<dialogCharts, calls>>
     ELSE /\ dialogCharts' = [j \in 1..4 |-> dialogChart(forecastData, j)]
          /\ calls' = calls \cup {Call("plotLineStat", Len(forecastData))}
          /\ windows' = Append(windows, ChartsDialog)
  /\ UNCHANGED <<net, nextId, currLabel, background, currChart, forecastData,
                 statCharts, avgCharts, running, crashed, statFrom, avgFrom,
                 good, lastGood, everStored>>
  /\ UNCHANGED pureVars /\ UNCHANGED pc

\* The user closes the top modal window.  When it is chartsDialog, exec()
\* returns and line 403 deletes the dialog's charts.
CloseWindow ==
  /\ Ready
  /\ windows # <<>>
  /\ lastOp' = Op("closeWindow", "", FALSE, "", 0, "")
  /\ windows' = SubSeq(windows, 1, Len(windows) - 1)
  /\ dialogCharts' =
       IF windows[Len(windows)] = ChartsDialog THEN <<>> ELSE dialogCharts
  /\ UNCHANGED <<net, nextId, currLabel, background, currChart, forecastData,
                 statCharts, avgCharts, running, crashed, statFrom, avgFrom,
                 good, lastGood, everStored, calls>>
  /\ UNCHANGED pureVars /\ UNCHANGED pc

\* getPlotStat (lines 414-431), on a click on "Plot" of the deviation tab
\* (showDev, lines 542-545) or of the averages tab (lines 590-593).
GetPlotStat ==
  /\ Clickable
  /\ \E showDev \in BOOLEAN, text \in Cities, f \in AppFreqs :
       IF isEmpty(text)
       THEN /\ windows' = Append(windows, EnterCityMessage)
            /\ lastOp' = Op("getPlotStat", text, showDev, f, 0, "")
            /\ UNCHANGED <<net, nextId>>
       ELSE /\ nextId <= MaxRequests
            /\ net' = net \cup {Request(nextId, "stat", showDev, f)}
            /\ nextId' = nextId + 1
            /\ lastOp' = Op("getPlotStat", text, showDev, f, nextId, "")
            /\ UNCHANGED windows
  /\ UNCHANGED <<currLabel, background, currChart, forecastData, dialogCharts,
                 statCharts, avgCharts, running, crashed, statFrom, avgFrom,
                 good, lastGood, everStored, calls>>
  /\ UNCHANGED pureVars /\ UNCHANGED pc

\* Lines 439-440: the list parseVisualCrossingJson gives for each body and
\* each frequency.
listOf ==
  [b \in StatBodies, f \in AppFreqs |-> parseVisualCrossingJson(statBody(b), f)]

\* The callback of a getPlotStat reply (lines 432-457), up to its loop.
PlotStatFinished ==
  /\ Ready
  /\ \E r \in net, o \in {NetworkError} \cup StatBodies :
       /\ r.kind = "stat"
       /\ lastOp' = Op("plotStatFinished", "", r.showDev, r.freq, r.id, o)
       /\ net' = net \ {r}
       /\ IF o = NetworkError
          THEN /\ windows' = Append(windows, DataErrorMessage)
               /\ UNCHANGED <<running, good, lastGood>>
          ELSE IF Len(listOf[o, r.freq]) = 0
          THEN /\ windows' = Append(windows, NoDataMessage)
               /\ UNCHANGED <<running, good, lastGood>>
          ELSE /\ running' = [active |-> TRUE, id |-> r.id, showDev |-> r.showDev,
                              freq |-> r.freq, j |-> 0,
                              list |-> listOf[o, r.freq]]
               /\ good' = good \cup {[id |-> r.id, showDev |-> r.showDev]}
               /\ lastGood' =
                    IF r.showDev
                    THEN [lastGood EXCEPT !.stat = [id |-> r.id, body |-> o, freq |-> r.freq]]
                    ELSE [lastGood EXCEPT !.avg = [id |-> r.id, body |-> o, freq |-> r.freq]]
               /\ UNCHANGED windows
  /\ UNCHANGED <<nextId, currLabel, background, currChart, forecastData,
                 dialogCharts, statCharts, avgCharts, crashed, statFrom,
                 avgFrom, everStored, calls>>
  /\ UNCHANGED pureVars /\ UNCHANGED pc

\* One round of the callback's loop (lines 459-464): chart j of the tab.
PlotStatLoop ==
  /\ pc = "app" /\ ~crashed /\ running.active
  /\ lastOp' = Op("plotStatLoop", "", running.showDev, running.freq, running.id, "")
  /\ IF target(running.showDev) = "statCharts"
     THEN /\ statCharts' =
               [statCharts EXCEPT ![running.j + 1] =
                  plotLineStat(seriesXY(running.list, running.j + 1),
                               Names[running.j + 1], TRUE, running.freq)]
          /\ statFrom' = [statFrom EXCEPT ![running.j + 1] = running.id]
          /\ UNCHANGED <<avgCharts, avgFrom>>
     ELSE /\ avgCharts' =
               [avgCharts EXCEPT ![running.j + 1] =
                  plotLineStat(seriesXY(running.list, running.j + 1),
                               Names[running.j + 1], FALSE, running.freq)]
          /\ avgFrom' = [avgFrom EXCEPT ![running.j + 1] = running.id]
          /\ UNCHANGED <<statCharts, statFrom>>
  /\ calls' = calls \cup {Call("plotLineStat", Len(running.list))}
  /\ running' = IF running.j + 1 = 4 THEN NoCallback
                ELSE [running EXCEPT !.j = running.j + 1]
  /\ UNCHANGED <<net, nextId, windows, currLabel, background, currChart,
                 forecastData, dialogCharts, crashed, good, lastGood, everStored>>
  /\ UNCHANGED pureVars /\ UNCHANGED pc

NextApp ==
  \/ GetWeather
  \/ CurrentWeatherFinished
  \/ ForecastFinished
  \/ ShowFourChartsCurrent
  \/ CloseWindow
  \/ GetPlotStat
  \/ PlotStatFinished
  \/ PlotStatLoop

SpecApp == InitApp /\ [][NextApp]_vars

\* SpecTabs: the two statistics tabs alone, the first tab left untouched.
NextTabs ==
  \/ GetPlotStat
  \/ PlotStatFinished
  \/ PlotStatLoop
  \/ CloseWindow

SpecTabs == InitApp /\ [][NextTabs]_vars

(***************************************************************************)
(* Claims about the main window.  A step of SpecApp or SpecTabs is the run *)
(* of one handler or callback (or one round of the plotting loop), and     *)
(* lastOp' names it with its inputs.                                       *)
(***************************************************************************)
\* The getPlotStat reply that finishes in this step, and its parsed list.
StatReplyStep == lastOp'.op = "plotStatFinished"
StatReplyFailed == StatReplyStep /\ lastOp'.outcome = NetworkError
StatReplyEmpty ==
  /\ StatReplyStep
  /\ lastOp'.outcome # NetworkError
  /\ Len(listOf[lastOp'.outcome, lastOp'.freq]) = 0

\* None of the eight statistics charts changes in this step, and no
\* callback is left inside its plotting loop to change one later.
EightChartsKept ==
  /\ UNCHANGED <<statCharts, avgCharts, statFrom, avgFrom>>
  /\ ~running'.active

C11_Step ==
  /\ StatReplyEmpty =>
       (windows' = Append(windows, NoDataMessage) /\ EightChartsKept)
  /\ StatReplyFailed => EightChartsKept
  /\ (lastOp'.op = "getPlotStat" /\ lastOp'.city = "") =>
       (UNCHANGED <<net, nextId>> /\ EightChartsKept)

\* C11: when the reply to a getPlotStat request finishes without network
\* error but parseVisualCrossingJson yields an empty list, the user is shown
\* the "no data to display" message and none of the eight statistics charts
\* (statCharts, avgCharts) is changed; likewise a reply that finishes with a
\* network error, or a getPlotStat call with an empty city (which sends no
\* request), leaves all eight charts unchanged.
C11_NoDataKeepsCharts == [][C11_Step]_vars

\* C11 witness: a reply without network error and with an empty list has
\* just finished, the message is on top, and the charts of a tab still show
\* the data an earlier reply put there.
C11_Witness ==
  /\ lastOp.op = "plotStatFinished"
  /\ lastOp.outcome = "malformed"
  /\ Len(listOf[lastOp.outcome, lastOp.freq]) = 0
  /\ windows # <<>>
  /\ windows[Len(windows)] = NoDataMessage
  /\ ~running.active
  /\ \/ \A j \in 1..4 : statCharts[j].plotted
     \/ \A j \in 1..4 : avgCharts[j].plotted

\* C12: in every reachable state of the application, for any sequence of
\* button clicks and network replies, the chart-plotting operations
\* plotLineStat and plotBarColored are invoked only with at least one data
\* point, so the division by values.size() and the min_element / max_element
\* dereference never operate on an empty sequence.
C12_PlotsHaveData == \A c \in calls : c.n >= 1

\* The part of C12 the code keeps: plotLineStat is never invoked with an
\* empty series (lines 355 and 441 guard its callers).
PlotLineStatHasData == \A c \in calls : c.op = "plotLineStat" => c.n >= 1

\* A state where C12 fails: plotBarColored has run on no temperature, and
\* the process has ended or the bar chart has an indeterminate range.
PlotBarColoredOnNothing ==
  /\ Call("plotBarColored", 0) \in calls
  /\ crashed \/ (currChart.plotted /\ ~currChart.rangeRead)

\* The four charts a tab shows for a reply: plotLineStat of the four series
\* of the body's parsed list, with the tab's showDev and the request's
\* frequency.
ChartsFor ==
  [b \in StatBodies, f \in AppFreqs, showDev \in BOOLEAN |->
     [j \in 1..4 |->
        IF Len(parseVisualCrossingJson(statBody(b), f)) = 0 THEN NoChart
        ELSE plotLineStat(seriesXY(parseVisualCrossingJson(statBody(b), f), j),
                          Names[j], showDev, f)]]

\* The four charts of a tab all show the reply `last`, or nothing when no
\* reply has been drawn on the tab.
TabShows(charts, from, last, showDev) ==
  \A j \in 1..4 :
    /\ from[j] = last.id
    /\ charts[j] =
         IF last.id = 0 THEN NoChart ELSE ChartsFor[last.body, last.freq, showDev][j]

\* While a callback is inside its plotting loop the next step is a round of
\* that loop, and it leaves the charts of the other tab alone.
LoopRunsAlone ==
  running.active =>
    /\ lastOp'.op = "plotStatLoop"
    /\ lastOp'.id = running.id
    /\ IF running.showDev
       THEN UNCHANGED <<avgCharts, avgFrom>>
       ELSE UNCHANGED <<statCharts, statFrom>>

C13_Step ==
  /\ LoopRunsAlone
  /\ ~running'.active =>
       /\ TabShows(statCharts', statFrom', lastGood'.stat, TRUE)
       /\ TabShows(avgCharts', avgFrom', lastGood'.avg, FALSE)

\* C13: when several getPlotStat requests are in flight at once (same or
\* different tab) and their replies finish in any order, each reply callback
\* runs to completion and updates only the four charts of the tab selected
\* by its own showDev flag (statCharts for true, avgCharts for false) from
\* its own reply; in every state between callbacks the four charts of a tab
\* all show data from one single reply, and after all replies have finished
\* each tab shows the data of the successful non-empty reply for that tab
\* that finished last, which need not be the request that was issued last.
C13_TabShowsLastFinished == [][C13_Step]_vars

\* C13 witness: no callback is running and no request is left in flight;
\* the deviation tab shows the reply of a request that was issued before
\* another request of the same tab, whose reply gave data too but finished
\* earlier.
C13_Witness ==
  /\ ~running.active
  /\ net = {}
  /\ lastGood.stat.id # 0
  /\ \A j \in 1..4 : statFrom[j] = lastGood.stat.id /\ statCharts[j].plotted
  /\ \E g \in good : g.showDev /\ g.id > lastGood.stat.id

\* The replies of the first tab that finish in this step.
WeatherReplyFailed ==
  /\ lastOp'.op \in {"currentWeatherFinished", "forecastFinished"}
  /\ lastOp'.outcome = NetworkError
ForecastReplyStored ==
  lastOp'.op = "forecastFinished" /\ lastOp'.outcome # NetworkError

\* showFourChartsCurrent runs in this step and refuses with its message.
ShowStep == lastOp'.op = "showFourChartsCurrent"
Refused == windows' = Append(windows, FindCityFirstMessage)

\* What the code keeps of C14: where forecast requests come from, who
\* changes forecastData and the bar chart, and what a reply stores.
C14_StoreStep ==
  /\ (\E r \in net' \ net : r.kind = "forecast") =>
       (lastOp'.op = "currentWeatherFinished" /\ lastOp'.outcome # NetworkError)
  /\ (forecastData' # forecastData \/ currChart' # currChart) => ForecastReplyStored
  /\ ForecastReplyStored =>
       forecastData' = forecastOf(forecastBody(lastOp'.outcome))
  /\ (lastOp'.op = "getWeather" /\ trimmed(lastOp'.city) = "") => UNCHANGED net
  /\ WeatherReplyFailed => UNCHANGED <<forecastData, currChart>>

\* C14: a forecast request is issued only from the callback of a
\* current-weather request that finished without error, and forecastData and
\* the bar chart are modified only by the callback of a forecast request that
\* finished without error, which replaces forecastData entirely with the
\* points of that reply in reply order; a getWeather call with an empty city
\* sends no request, and whenever the current-weather request or the forecast
\* request fails, forecastData and the bar chart keep their previous contents,
\* so showFourChartsCurrent refuses with an error message exactly as long as
\* no forecast reply has yet stored at least one point.
C14_RefusesUntilStored ==
  [][C14_StoreStep /\ (ShowStep => (Refused <=> ~everStored))]_vars

\* What holds of the code instead: showFourChartsCurrent refuses exactly
\* when forecastData is empty, which it is before the first forecast reply
\* without error and again after one that carries no point.
RefusesWhenEmpty ==
  [][C14_StoreStep /\ (ShowStep => (Refused <=> Len(forecastData) = 0))]_vars

\* A state where C14 fails: showFourChartsCurrent has just refused although
\* a forecast reply had stored points before.
RefusedAfterStored ==
  /\ lastOp.op = "showFourChartsCurrent"
  /\ windows = <<FindCityFirstMessage>>
  /\ everStored

=============================================================================
